---------------------------- MODULE Spec2Model ----------------------------
(***************************************************************************)
(* Model of datafusion/spark/src/function/math/factorial.rs: the Spark     *)
(* `factorial` scalar function (FACTORIALS, compute_factorial,             *)
(* spark_factorial, SparkFactorial::return_field_from_args).               *)
(*                                                                         *)
(* Representation choices                                                  *)
(*  - Option<T>: None is <<>>, Some(v) is <<v>>.                           *)
(*  - i32 values are TLA+ integers (they fit TLC's 32-bit integers).       *)
(*  - i64 and usize values do not fit, so they are kept exactly as four    *)
(*    base-10^6 limbs, most significant first: 2432902008176640000 is      *)
(*    <<2, 432902, 8176, 640000>>.                                         *)
(*  - Result<T>: [tag |-> "Ok", value |-> v], [tag |-> "Err", ...]; a      *)
(*    panic (index out of bounds) is the outcome [tag |-> "Panic"].        *)
(***************************************************************************)
EXTENDS Integers, Sequences, FiniteSets, TLC

VARIABLES table,       \* the memory holding the FACTORIALS constant
          pc,          \* per caller: "idle", "planned", "called", "returned"
          arg_fields,  \* per caller: ReturnFieldArgs.arg_fields of its last planning call
          field,       \* per caller: Option of the Field return_field_from_args gave
          args,        \* per caller: the &[ColumnarValue] of the invocation in flight
          result       \* per caller: Option of the outcome of its invocation

vars == <<table, pc, arg_fields, field, args, result>>

----------------------------------------------------------------------------
(* Bounds of the model                                                     *)

\* Present i32 sample values run from RangeLo - Below to RangeHi + Above
\* (plus the two extremes of i32).
Below == 2

Above == 2

\* Longest array argument.
MaxLen == 3

\* Number of concurrent callers in SpecConc.
NumCallers == 2

----------------------------------------------------------------------------
(* Option                                                                  *)

None == <<>>

Some(v) == <<v>>

----------------------------------------------------------------------------
(* Exact wide integers: four base-10^6 limbs, most significant first       *)

Base == 10^6

\* A non-negative integer below 2^31 as limbs.
FromNat(n) == <<0, 0, n \div Base, n % Base>>

\* Propagates carries (and borrows: \div is floor division) towards the
\* most significant limb, which is left unreduced.
Norm(x) ==
    LET c4 == x[4] \div Base
        l3 == x[3] + c4
        c3 == l3 \div Base
        l2 == x[2] + c3
        c2 == l2 \div Base
    IN  <<x[1] + c2, l2 % Base, l3 % Base, x[4] % Base>>

\* x * k for a small non-negative k.
MulSmall(x, k) == Norm(<<x[1] * k, x[2] * k, x[3] * k, x[4] * k>>)

\* x < y on normalised limbs.
Less(x, y) ==
    \E i \in 1..4 : x[i] < y[i] /\ \A j \in 1..(i - 1) : x[j] = y[j]

\* i64::MAX = 2^63 - 1 = 9223372036854775807
I64Max == <<9, 223372, 36854, 775807>>

\* 2^64 = 18446744073709551616, the modulus of usize on a 64-bit target
UsizeModulus == <<18, 446744, 73709, 551616>>

I32Max == 2147483647

I32Min == (-2147483647) - 1

\* `v as usize` for an i32 v: sign extension, i.e. v mod 2^64.
as_usize(v) ==
    IF v >= 0 THEN FromNat(v)
    ELSE Norm(<<UsizeModulus[1], UsizeModulus[2],
                UsizeModulus[3] + (v \div Base), UsizeModulus[4] + (v % Base)>>)

----------------------------------------------------------------------------
(* The FACTORIALS table                                                    *)

FACTORIALS_TypoAt13 ==
    <<  <<0, 0, 0, 1>>, <<0, 0, 0, 1>>, <<0, 0, 0, 2>>, <<0, 0, 0, 6>>,
        <<0, 0, 0, 24>>, <<0, 0, 0, 120>>, <<0, 0, 0, 720>>, <<0, 0, 0, 5040>>,
        <<0, 0, 0, 40320>>, <<0, 0, 0, 362880>>, <<0, 0, 3, 628800>>,
        <<0, 0, 39, 916800>>, <<0, 0, 479, 1600>>, <<0, 0, 6227, 28000>>,
        <<0, 0, 87178, 291200>>, <<0, 1, 307674, 368000>>,
        <<0, 20, 922789, 888000>>, <<0, 355, 687428, 96000>>,
        <<0, 6402, 373705, 728000>>, <<0, 121645, 100408, 832000>>,
        <<2, 432902, 8176, 640000>> >>

\* const FACTORIALS: [i64; 21]; entry i of the source is element i + 1 here.
FACTORIALS ==
    <<  <<0, 0, 0, 1>>,                 \* 1
        <<0, 0, 0, 1>>,                 \* 1
        <<0, 0, 0, 2>>,                 \* 2
        <<0, 0, 0, 6>>,                 \* 6
        <<0, 0, 0, 24>>,                \* 24
        <<0, 0, 0, 120>>,               \* 120
        <<0, 0, 0, 720>>,               \* 720
        <<0, 0, 0, 5040>>,              \* 5040
        <<0, 0, 0, 40320>>,             \* 40320
        <<0, 0, 0, 362880>>,            \* 362880
        <<0, 0, 3, 628800>>,            \* 3628800
        <<0, 0, 39, 916800>>,           \* 39916800
        <<0, 0, 479, 1600>>,            \* 479001600
        <<0, 0, 6227, 20800>>,          \* 6227020800
        <<0, 0, 87178, 291200>>,        \* 87178291200
        <<0, 1, 307674, 368000>>,       \* 1307674368000
        <<0, 20, 922789, 888000>>,      \* 20922789888000
        <<0, 355, 687428, 96000>>,      \* 355687428096000
        <<0, 6402, 373705, 728000>>,    \* 6402373705728000
        <<0, 121645, 100408, 832000>>,  \* 121645100408832000
        <<2, 432902, 8176, 640000>> >>  \* 2432902008176640000

----------------------------------------------------------------------------
(* compute_factorial                                                       *)

RangeLo == 0

RangeHi == 20

\* (0..=20).contains(&v)
InRange_NoLowerBound(v) == v <= RangeHi

InRange_From1(v) == RangeLo + 1 <= v /\ v <= RangeHi

InRange(v) == RangeLo <= v /\ v <= RangeHi

\* num.filter(|&v| (0..=20).contains(&v))
Filtered(num) == IF num # None /\ InRange(num[1]) THEN num ELSE None

\* The bounds check of FACTORIALS[idx]: idx < FACTORIALS.len()
InBounds(idx) == Less(idx, FromNat(Len(table)))

\* TRUE when compute_factorial(num) panics on an out-of-bounds index.
compute_factorial_panics(num) ==
    LET f == Filtered(num)
    IN  f # None /\ ~InBounds(as_usize(f[1]))

\* The value compute_factorial(num) returns when it does not panic.
compute_factorial(num) ==
    LET f == Filtered(num)
    IN  IF f = None \/ ~InBounds(as_usize(f[1])) THEN None
        ELSE Some(table[as_usize(f[1])[4] + 1])


----------------------------------------------------------------------------
(* ColumnarValue, ScalarValue, arrays and results                          *)

\* ColumnarValue::Scalar(ScalarValue::<data_type>(value)); value is an Option.
Scalar(data_type, value) ==
    [shape |-> "Scalar", data_type |-> data_type, data |-> value]

\* ColumnarValue::Array(array); values is a sequence of Options, one per row.
Array(data_type, values) ==
    [shape |-> "Array", data_type |-> data_type, data |-> values]

Ok(v) == [tag |-> "Ok", value |-> v]

\* exec_err!(..): DataFusionError::Execution
ExecErr(msg) == [tag |-> "Err", kind |-> "Execution", msg |-> msg]

\* The outcome of a call that panicked instead of returning.
Panic == [tag |-> "Panic"]

\* take_function_args("factorial", args): the single argument, or an error
\* when args does not hold exactly one element.
take_function_args(a) ==
    IF Len(a) = 1 THEN Ok(a[1])
    ELSE [tag |-> "Err", kind |-> "Execution",
          msg |-> "factorial function requires 1 argument"]

\* as_int32_array(array): the downcast to Int32Array, or an error.
as_int32_array(array) ==
    IF array.data_type = "Int32" THEN Ok(array.data)
    ELSE [tag |-> "Err", kind |-> "Internal", msg |-> "could not cast to Int32Array"]

----------------------------------------------------------------------------
(* spark_factorial                                                         *)

\* array.iter().map(compute_factorial).collect(): the iterator is consumed
\* front to back and every mapped item is pushed onto the builder.
RECURSIVE MapCollect_SkipNulls(_, _)
MapCollect_SkipNulls(iter, builder) ==
    IF iter = <<>> THEN builder
    ELSE IF Head(iter) = None THEN MapCollect_SkipNulls(Tail(iter), builder)
    ELSE MapCollect_SkipNulls(Tail(iter),
                              Append(builder, compute_factorial(Head(iter))))

RECURSIVE MapCollect(_, _)
MapCollect(iter, builder) ==
    IF iter = <<>> THEN builder
    ELSE MapCollect(Tail(iter), Append(builder, compute_factorial(Head(iter))))

\* The match on the single argument (lines 113-133).
Dispatch(arg) ==
    IF arg.shape = "Scalar" THEN
        IF arg.data_type = "Int32" THEN
            IF compute_factorial_panics(arg.data) THEN Panic
            ELSE Ok(Scalar("Int64", compute_factorial(arg.data)))
        ELSE ExecErr("factorial got an unexpected scalar type")
    ELSE
        IF arg.data_type = "Int32" THEN
            LET array == as_int32_array(arg)
            IN  IF array.tag = "Err" THEN array
                ELSE IF \E i \in 1..Len(array.value) :
                            compute_factorial_panics(array.value[i])
                     THEN Panic
                     ELSE Ok(Array("Int64", MapCollect(array.value, <<>>)))
        ELSE ExecErr("factorial got an unexpected argument type")

\* Variants of spark_factorial with a plausible slip.
spark_factorial_FirstArg(a) ==
    IF Len(a) = 0 THEN Ok(Scalar("Int64", None)) ELSE Dispatch(a[1])

spark_factorial_NullOnOtherType(a) ==
    LET t == take_function_args(a)
    IN  IF t.tag = "Err" THEN t
        ELSE IF t.value.data_type = "Int32" THEN Dispatch(t.value)
        ELSE IF t.value.shape = "Scalar" THEN Ok(Scalar("Int64", None))
        ELSE Ok(Array("Int64", [i \in 1..Len(t.value.data) |-> None]))

spark_factorial_ScalarAsArray(a) ==
    LET t == take_function_args(a)
    IN  IF t.tag = "Err" THEN t
        ELSE IF t.value.shape = "Scalar" /\ t.value.data_type = "Int32"
             THEN Dispatch(Array("Int32", <<t.value.data>>))
             ELSE Dispatch(t.value)

spark_factorial(a) ==
    LET t == take_function_args(a)
    IN  IF t.tag = "Err" THEN t ELSE Dispatch(t.value)

----------------------------------------------------------------------------
(* SparkFactorial::return_field_from_args                                  *)

\* arrow Field::new(name, data_type, nullable)
Field(name, data_type, nullable) ==
    [name |-> name, data_type |-> data_type, nullable |-> nullable]

\* SparkFactorial::name()
name == "factorial"

return_field_from_args_AlwaysNullable(fields) ==
    Ok(Field(name, "Int64", TRUE))

return_field_from_args(fields) ==
    LET nullable == \E i \in 1..Len(fields) : fields[i].nullable
    IN  Ok(Field(name, "Int64", nullable))

----------------------------------------------------------------------------
(* The inputs the callers draw from                                        *)

SeqsUpTo(S, n) == UNION {[1..k -> S] : k \in 0..n}

\* Present i32 values given to the scalar path.
Int32Values == {I32Min, I32Max} \cup ((RangeLo - Below)..(RangeHi + Above))

Int32Scalars ==
    {Scalar("Int32", None)} \cup {Scalar("Int32", Some(v)) : v \in Int32Values}

\* Rows of the Int32 arrays: null, the least i32, both edges of the domain
\* and their outer neighbours, and an inner value.
Int32Rows == {None} \cup {Some(v) : v \in {I32Min, -1, 0, 5, 20, 21}}

Int32Arrays == {Array("Int32", S) : S \in SeqsUpTo(Int32Rows, MaxLen)}

\* Values of the other types; their payload is never read by the function
\* and is kept as a small code.
OtherTypes == {"Int64", "Utf8", "Null"}

OtherRows(t) == IF t = "Null" THEN {None} ELSE {None, Some(5), Some(21)}

OtherScalars == UNION {{Scalar(t, v) : v \in OtherRows(t)} : t \in OtherTypes}

OtherArrays ==
    UNION {{Array(t, S) : S \in SeqsUpTo(OtherRows(t), 2)} : t \in OtherTypes}

\* The arguments used in calls of the wrong arity.
MixedValues ==
    { Scalar("Int32", Some(5)), Scalar("Int32", Some(21)), Scalar("Int32", None),
      Array("Int32", <<Some(5), None>>), Scalar("Utf8", Some(5)),
      Array("Int64", <<>>) }

ArgLists ==
    {<<>>}
      \cup {<<v>> : v \in Int32Scalars \cup Int32Arrays \cup OtherScalars \cup OtherArrays}
      \cup (MixedValues \X MixedValues)
      \cup {<<v, v, v>> : v \in MixedValues}

\* The input fields of a planning call: data type and declared nullability.
InputFields ==
    {Field("x", t, n) : t \in {"Int32", "Int64"}, n \in BOOLEAN}

FieldLists == SeqsUpTo(InputFields, 2)

Callers == 1..NumCallers

\* The smaller universe of the concurrent specification.
ConcArgLists ==
    { <<Scalar("Int32", Some(5))>>, <<Scalar("Int32", Some(21))>>,
      <<Array("Int32", <<Some(20), None, Some(-1)>>)>>,
      <<Scalar("Utf8", Some(5))>>, <<>>,
      <<Scalar("Int32", Some(5)), Scalar("Int32", Some(5))>> }

ConcFieldLists ==
    {<<Field("x", "Int32", FALSE)>>, <<Field("x", "Int32", TRUE)>>}

----------------------------------------------------------------------------
(* State machine                                                           *)

Init ==
    /\ table = FACTORIALS
    /\ pc = [c \in Callers |-> "idle"]
    /\ arg_fields = [c \in Callers |-> <<>>]
    /\ field = [c \in Callers |-> None]
    /\ args = [c \in Callers |-> <<>>]
    /\ result = [c \in Callers |-> None]

\* The planner asks caller c's function for its output field.
Plan(c, fields) ==
    /\ pc[c] = "idle"
    /\ pc' = [pc EXCEPT ![c] = "planned"]
    /\ arg_fields' = [arg_fields EXCEPT ![c] = fields]
    /\ field' = [field EXCEPT ![c] = Some(return_field_from_args(fields))]
    /\ UNCHANGED <<table, args, result>>

\* Caller c enters invoke_with_args / spark_factorial with arguments a.
Call(c, a) ==
    /\ pc[c] \in {"idle", "planned"}
    /\ pc' = [pc EXCEPT ![c] = "called"]
    /\ args' = [args EXCEPT ![c] = a]
    /\ UNCHANGED <<table, arg_fields, field, result>>

\* A variant where the output is written to a slot shared by the callers.
Return_SharedOutput(c) ==
    /\ pc[c] = "called"
    /\ pc' = [pc EXCEPT ![c] = "returned"]
    /\ result' = [d \in Callers |->
                    IF d = c \/ pc[d] = "returned"
                    THEN Some(spark_factorial(args[c])) ELSE result[d]]
    /\ UNCHANGED <<table, arg_fields, field, args>>

\* The invocation of caller c runs to its end and hands back its outcome.
Return(c) ==
    /\ pc[c] = "called"
    /\ pc' = [pc EXCEPT ![c] = "returned"]
    /\ result' = [result EXCEPT ![c] = Some(spark_factorial(args[c]))]
    /\ UNCHANGED <<table, arg_fields, field, args>>

\* Caller c drops the outcome and is ready for its next call.
Reset(c) ==
    /\ pc[c] = "returned"
    /\ pc' = [pc EXCEPT ![c] = "idle"]
    /\ arg_fields' = [arg_fields EXCEPT ![c] = <<>>]
    /\ field' = [field EXCEPT ![c] = None]
    /\ args' = [args EXCEPT ![c] = <<>>]
    /\ result' = [result EXCEPT ![c] = None]
    /\ UNCHANGED table

\* One caller issuing calls one after the other, over the full input universe.
Next ==
    \/ \E fields \in FieldLists : Plan(1, fields)
    \/ \E a \in ArgLists : Call(1, a)
    \/ Return(1)
    \/ Reset(1)

Spec == Init /\ [][Next]_vars

\* Several callers whose planning calls and invocations interleave.
NextConc ==
    \/ \E c \in Callers : \E fields \in ConcFieldLists : Plan(c, fields)
    \/ \E c \in Callers : \E a \in ConcArgLists : Call(c, a)
    \/ \E c \in Callers : Return(c)
    \/ \E c \in Callers : Reset(c)

SpecConc == Init /\ [][NextConc]_vars

----------------------------------------------------------------------------
(* Properties                                                              *)

\* n! computed by the recurrence, independently of the table.
RECURSIVE Factorial(_)
Factorial(n) == IF n <= 1 THEN FromNat(1) ELSE MulSmall(Factorial(n - 1), n)

\* Caller c has got back the outcome of a one-argument call on an Int32 value
\* of the given shape.
ReturnedInt32(c, shape) ==
    /\ pc[c] = "returned"
    /\ Len(args[c]) = 1
    /\ args[c][1].shape = shape
    /\ args[c][1].data_type = "Int32"

\* C1: the scalar path returns a present value iff the input is present and
\* lies in 0..20; the present value is FACTORIALS[x] = x!; a null input, a
\* negative input and an input above 20 give null.
C1_ScalarDomain ==
    \A c \in Callers :
        ReturnedInt32(c, "Scalar") =>
            LET x == args[c][1].data
                r == result[c][1]
            IN  /\ r.tag = "Ok"
                /\ (r.value.data # None) <=> (x # None /\ 0 <= x[1] /\ x[1] <= 20)
                /\ r.value.data # None =>
                      /\ r.value.data = Some(FACTORIALS[x[1] + 1])
                      /\ r.value.data = Some(Factorial(x[1]))

C1_Witness ==
    \E c \in Callers :
        /\ ReturnedInt32(c, "Scalar")
        /\ args[c][1].data = Some(5)
        /\ result[c][1] = Ok(Scalar("Int64", Some(FromNat(120))))

\* C2: on an Int32 array the result is an array of the same length whose
\* element i is compute_factorial of element i of the input: same order,
\* nulls in place, nothing filtered or skipped.
C2_ArrayPositional ==
    \A c \in Callers :
        ReturnedInt32(c, "Array") =>
            LET S == args[c][1].data
                r == result[c][1]
            IN  /\ r.tag = "Ok"
                /\ r.value.shape = "Array"
                /\ Len(r.value.data) = Len(S)
                /\ \A i \in 1..Len(S) : r.value.data[i] = compute_factorial(S[i])

C2_Witness ==
    \E c \in Callers :
        /\ ReturnedInt32(c, "Array")
        /\ args[c][1].data = <<None, Some(5), Some(21)>>
        /\ result[c][1].value.data = <<None, Some(FromNat(120)), None>>

\* C3: the table has exactly 21 entries, entries 0 and 1 are 1, entry i is
\* i times entry i-1 for i in 2..20, every entry fits in an i64 and
\* 21 * entry 20 does not.
C3_TableRecurrence ==
    /\ Len(table) = RangeHi + 1
    /\ table[1] = FromNat(1)
    /\ table[2] = FromNat(1)
    /\ \A i \in 2..RangeHi : table[i + 1] = MulSmall(table[i], i)
    /\ \A i \in 1..Len(table) : ~Less(I64Max, table[i])
    /\ table[RangeHi + 1] = <<2, 432902, 8176, 640000>>
    /\ Less(I64Max, MulSmall(table[RangeHi + 1], RangeHi + 1))

C3_Witness ==
    \E c \in Callers :
        /\ ReturnedInt32(c, "Scalar")
        /\ args[c][1].data = Some(RangeHi)
        /\ result[c][1].value.data = Some(table[RangeHi + 1])
        /\ Less(I64Max, MulSmall(result[c][1].value.data[1], RangeHi + 1))

\* Caller c planned with a single input field declared non-nullable.
PlannedNonNullable(c) ==
    /\ field[c] # None
    /\ Len(arg_fields[c]) = 1
    /\ ~arg_fields[c][1].nullable

\* C4: for a single non-nullable input field the declared output field is
\* nullable, so that the declared nullability is never false while a
\* non-null Int32 input outside 0..20 evaluates to null.
C4_DeclaredNullableForNonNullableInput ==
    \A c \in Callers :
        /\ PlannedNonNullable(c) => field[c][1].value.nullable
        /\ ~ ( /\ PlannedNonNullable(c)
               /\ ReturnedInt32(c, "Scalar")
               /\ args[c][1].data # None
               /\ result[c][1].tag = "Ok"
               /\ result[c][1].value.data = None
               /\ ~field[c][1].value.nullable )

\* C5: a call with zero, two or more arguments returns the arity error and
\* no value, whatever the arguments are.
C5_ArityError ==
    \A c \in Callers :
        (pc[c] = "returned" /\ Len(args[c]) # 1) =>
            /\ result[c][1].tag = "Err"
            /\ result[c][1] = take_function_args(args[c])

C5_Witness ==
    \E c \in Callers :
        /\ pc[c] = "returned"
        /\ args[c] = <<Scalar("Int32", Some(5)), Scalar("Int32", Some(21))>>
        /\ result[c][1].tag = "Err"

\* C6: a call with one argument that is not Int32 (scalar or array, null,
\* empty or all-null included) returns an error and no value.
C6_TypeError ==
    \A c \in Callers :
        (/\ pc[c] = "returned"
         /\ Len(args[c]) = 1
         /\ args[c][1].data_type # "Int32") =>
            /\ result[c][1].tag = "Err"
            /\ result[c][1].kind = "Execution"

C6_Witness ==
    \E c \in Callers :
        /\ pc[c] = "returned"
        /\ args[c] = <<Array("Int64", <<None, None>>)>>
        /\ result[c][1].tag = "Err"

\* The Options held by a ColumnarValue.
Elements(v) ==
    IF v.shape = "Scalar" THEN {v.data} ELSE {v.data[i] : i \in 1..Len(v.data)}

\* C7: a call with one Int32 argument returns Ok, never an error or a panic,
\* and every index that reaches the table lies in 0..20.
C7_Int32NeverFails ==
    \A c \in Callers :
        (\E shape \in {"Scalar", "Array"} : ReturnedInt32(c, shape)) =>
            /\ result[c][1].tag = "Ok"
            /\ \A x \in Elements(args[c][1]) :
                  Filtered(x) # None =>
                      /\ InBounds(as_usize(Filtered(x)[1]))
                      /\ as_usize(Filtered(x)[1]) \in {FromNat(i) : i \in 0..20}

C7_Witness ==
    \E c \in Callers :
        /\ ReturnedInt32(c, "Array")
        /\ args[c][1].data = <<Some(I32Min), Some(21), Some(-1)>>
        /\ result[c][1].tag = "Ok"

\* C8: the successful result has the shape of the argument: an Int32 scalar
\* gives an Int64 scalar, an Int32 array gives an Int64 array.
C8_ShapeMirrored ==
    \A c \in Callers :
        \A shape \in {"Scalar", "Array"} :
            (ReturnedInt32(c, shape) /\ result[c][1].tag = "Ok") =>
                /\ result[c][1].value.shape = shape
                /\ result[c][1].value.data_type = "Int64"

C8_Witness ==
    \E c \in Callers :
        /\ ReturnedInt32(c, "Scalar")
        /\ args[c][1].data = None
        /\ result[c][1] = Ok(Scalar("Int64", None))

\* C9: under any interleaving of calls, calls with equal arguments have equal
\* results, a returning call (failed or not) changes nothing another caller
\* observes, and the table is never modified.
C9_CallsIndependent ==
    /\ [](\A c, d \in Callers :
            (pc[c] = "returned" /\ pc[d] = "returned" /\ args[c] = args[d])
                => result[c] = result[d])
    /\ [][ /\ table' = table
           /\ \A c \in Callers :
                (pc[c] = "called" /\ pc'[c] = "returned") =>
                    \A d \in Callers \ {c} :
                        /\ result'[d] = result[d]
                        /\ args'[d] = args[d]
                        /\ field'[d] = field[d]
                        /\ pc'[d] = pc[d] ]_vars

C9_Witness ==
    \E c, d \in Callers :
        /\ c # d
        /\ pc[c] = "returned" /\ pc[d] = "returned"
        /\ result[c][1].tag = "Err"
        /\ args[d] = <<Scalar("Int32", Some(5))>>
        /\ result[d][1] = Ok(Scalar("Int64", Some(FromNat(120))))

\* C10: return_field_from_args never fails and declares an Int64 field named
\* "factorial" that is nullable exactly when some input field is nullable.
C10_DeclaredField ==
    \A c \in Callers :
        field[c] # None =>
            /\ field[c][1].tag = "Ok"
            /\ field[c][1].value.data_type = "Int64"
            /\ field[c][1].value.name = "factorial"
            /\ field[c][1].value.nullable
                 <=> (\E i \in 1..Len(arg_fields[c]) : arg_fields[c][i].nullable)

C10_Witness ==
    \E c \in Callers :
        /\ PlannedNonNullable(c)
        /\ arg_fields[c][1].data_type = "Int32"
        /\ ~field[c][1].value.nullable

============================================================================
